---- MODULE Spec2Model ----
(***************************************************************************)
(* The browser client of the Connect-Four game, static/script.js: the      *)
(* session variables, the two XMLHttpRequest senders with their            *)
(* onreadystatechange handlers, the canvas renderer and the two click      *)
(* listeners.  The game service is an external collaborator: its answers   *)
(* are drawn from bounded sets.                                            *)
(*                                                                         *)
(* A JavaScript string that is built or taken apart (a URL, a game id) is  *)
(* a sequence of one-character strings; a display text is a sequence of    *)
(* chunks.                                                                 *)
(***************************************************************************)
EXTENDS Integers, Sequences, FiniteSets, Bags

VARIABLES
    game_id,        \* script.js:8
    num_rows,       \* script.js:9
    num_columns,    \* script.js:10
    active_game,    \* script.js:11
    prompt,         \* innerHTML of the element "prompt"
    canvas,         \* the element "gameBoard": its size and what is painted on it
    inflight,       \* bag of the XMLHttpRequests sent and not yet DONE
    last,           \* history: the event handled by the latest step
    gameOverSeen,   \* history: a game-over move answer was applied, no start answer since
    renderLog       \* history: the latest two runs of renderBoard, newest last

vars == <<game_id, num_rows, num_columns, active_game, prompt, canvas,
          inflight, last, gameOverSeen, renderLog>>

----------------------------------------------------------------------------
(* Bounds of the model. *)

\* Most requests outstanding at once.
MaxInflight == 2

\* Largest NumRows / NumColumns an answer carries when the renderer is checked alone.
MaxDim == 2

\* Longest Board an answer carries when the renderer is checked alone.
MaxBoardLen == 3

----------------------------------------------------------------------------
(* Strings. *)

Digits == <<"0", "1", "2", "3", "4", "5", "6", "7", "8", "9">>

RECURSIVE NatToString(_)
NatToString(n) ==
    IF n < 10 THEN <<Digits[n + 1]>>
    ELSE NatToString(n \div 10) \o <<Digits[(n % 10) + 1]>>

\* Number to string, as '+' converts a number operand of a string concatenation.
NumberToString(n) == IF n < 0 THEN <<"-">> \o NatToString(0 - n) ELSE NatToString(n)

\* The characters escape() copies unchanged, among those the model uses.
EscapePass ==
    {Digits[i] : i \in 1..10} \cup {"a", "b", "g", "@", "*", "_", "+", "-", ".", "/"}

\* The two hexadecimal digits of the characters escape() encodes, among those
\* the model uses.
HexCode(ch) ==
    CASE ch = "&" -> <<"2", "6">>
      [] ch = "=" -> <<"3", "D">>
      [] ch = "%" -> <<"2", "5">>
      [] ch = "?" -> <<"3", "F">>
      [] ch = " " -> <<"2", "0">>

RECURSIVE escape(_)
escape(s) ==
    IF s = <<>> THEN <<>>
    ELSE (IF Head(s) \in EscapePass THEN <<Head(s)>> ELSE <<"%">> \o HexCode(Head(s)))
         \o escape(Tail(s))

----------------------------------------------------------------------------
(* Constants and the pure parts of the senders and of the click listener. *)

slot_pixels == 60

InitialGameId == <<"0">>

\* The guard without its status test.
SucceededAnyStatus(readyState, status) == readyState = 4

\* script.js:17 and script.js:45, the guard of both handlers.
Succeeded(readyState, status) == readyState = 4 /\ status = 200

\* script.js:32-36
NewGameUrl(gid, active) ==
    <<"/", "n", "e", "w", "g", "a", "m", "e">>
    \o (IF gid # InitialGameId /\ active
        THEN <<"?", "g", "a", "m", "e", "_", "i", "d">> \o escape(gid)
        ELSE <<>>)

\* script.js:53-54
MakeMoveUrl(gid, col_index) ==
    <<"/", "m", "a", "k", "e", "m", "o", "v", "e">>
    \o <<"?", "g", "a", "m", "e", "_", "i", "d", "=">> \o escape(gid)
    \o <<"&", "c", "o", "l", "u", "m", "n", "_", "i", "n", "d", "e", "x", "=">>
    \o NumberToString(col_index)

\* The pending text naming the column by its index.
PendingPromptZeroBased(col_index) ==
    <<"Player move in column ">> \o NumberToString(col_index)
    \o <<". Computer thinking...">>

\* script.js:58
PendingPrompt(col_index) ==
    <<"Player move in column ">> \o NumberToString(col_index + 1)
    \o <<". Computer thinking...">>

\* The listener without its guard.
ClickAcceptedAlways(active) == TRUE

\* script.js:105, negated: the listener goes on only when a game is active.
ClickAccepted(active) == active

\* The column taken from the page coordinate alone.
ColumnOfClickIgnoringOffset(pageX, offsetLeft) == pageX \div slot_pixels

\* script.js:111; \div rounds towards minus infinity, as Math.floor does.
ColumnOfClick(pageX, offsetLeft) == (pageX - offsetLeft) \div slot_pixels

----------------------------------------------------------------------------
(* The renderer, script.js:62-94.  The canvas is its size and the sequence  *)
(* of filled circles painted on it since it was last cleared.               *)

\* resp['Board'][i]: an index outside the array reads undefined.
BoardAt(board, i) == IF (i + 1) \in DOMAIN board THEN board[i + 1] ELSE "undefined"

\* The switch comparing without regard to case.
FillStyleOfAnyCase(cell) ==
    CASE cell \in {"X", "x"} -> "#f06666"
      [] cell \in {"O", "o"} -> "#6686f0"
      [] OTHER -> "#DCDCDC"

\* script.js:81-90
FillStyleOf(cell) ==
    CASE cell = "X" -> "#f06666"
      [] cell = "O" -> "#6686f0"
      [] OTHER -> "#DCDCDC"

\* A resize that keeps what was painted.
SetCanvasSizeKeepingPaint(cv, width, height) ==
    [cv EXCEPT !.width = width, !.height = height]

\* script.js:66-67: assigning a canvas's width or height clears its bitmap and
\* resets its context, the current path included.
SetCanvasSize(cv, width, height) ==
    [width |-> width, height |-> height, painted |-> <<>>]

\* A beginPath() that leaves the earlier arcs in the path.
BeginPathKeeping(path) == path

\* script.js:73: beginPath() empties the current path.
BeginPath(path) == <<>>

\* script.js:78-80
SlotArc(row_index, col_index) ==
    [x |-> (slot_pixels \div 2) + (col_index * slot_pixels),
     y |-> (slot_pixels \div 2) + (row_index * slot_pixels),
     radius |-> (slot_pixels \div 2) - 2]

\* script.js:91: fill() paints every arc of the current path in the fill style.
Fill(path, fillStyle) ==
    [k \in 1..Len(path) |->
        [x |-> path[k].x, y |-> path[k].y, radius |-> path[k].radius,
         fillStyle |-> fillStyle]]

\* script.js:73-91, the body of the inner loop; ctx is the 2D context: its
\* current path and what it has painted.
DrawSlot(ctx, resp, cols, row_index, col_index) ==
    LET path == Append(BeginPath(ctx.path), SlotArc(row_index, col_index))
        fillStyle == FillStyleOf(BoardAt(resp.Board, (cols * row_index) + col_index))
    IN  [path |-> path, painted |-> ctx.painted \o Fill(path, fillStyle)]

\* script.js:72
RECURSIVE ColumnLoop(_, _, _, _, _)
ColumnLoop(ctx, resp, cols, row_index, col_index) ==
    IF col_index < cols
    THEN ColumnLoop(DrawSlot(ctx, resp, cols, row_index, col_index),
                    resp, cols, row_index, col_index + 1)
    ELSE ctx

\* script.js:71
RECURSIVE RowLoop(_, _, _, _, _)
RowLoop(ctx, resp, rows, cols, row_index) ==
    IF row_index < rows
    THEN RowLoop(ColumnLoop(ctx, resp, cols, row_index, 0),
                 resp, rows, cols, row_index + 1)
    ELSE ctx

\* script.js:62-94, with the globals num_rows, num_columns it reads and the
\* canvas it paints passed in; the result is the prompt and the canvas it leaves.
renderBoard(resp, rows, cols, cv) ==
    LET sized == SetCanvasSize(cv, cols * slot_pixels, rows * slot_pixels)
        ctx == RowLoop([path |-> <<>>, painted |-> sized.painted], resp, rows, cols, 0)
    IN  [prompt |-> resp["Prompt"],
         canvas |-> [sized EXCEPT !.painted = ctx.painted]]

----------------------------------------------------------------------------
(* The answers of the game service and the inputs of the page. *)

GameIds == {<<"7">>, <<"a", "&">>}

Prompts == {<<"Your move.">>}

\* The answers drawn when the whole client runs.  Each carries NumRows and
\* NumColumns of one of two shapes and a Board of that shape's length.
Shapes == {<<1, 1>>, <<1, 2>>}

BoardOfShape(d) == IF d = <<1, 1>> THEN <<"X">> ELSE <<"O", "X">>

ServerResponses ==
    {[GameId |-> g, NumRows |-> d[1], NumColumns |-> d[2], Board |-> BoardOfShape(d),
      Prompt |-> p, GameOver |-> o] :
        g \in GameIds, d \in Shapes, p \in Prompts, o \in BOOLEAN}

\* The answers drawn when the renderer is checked alone: every shape up to
\* MaxDim by MaxDim with every Board up to MaxBoardLen cells, matching the
\* shape or not.
Cells == {"X", "O", "_", "x"}

Boards == UNION {[1..n -> Cells] : n \in 0..MaxBoardLen}

RenderResponses ==
    {[GameId |-> <<"7">>, NumRows |-> r, NumColumns |-> c, Board |-> b,
      Prompt |-> p, GameOver |-> FALSE] :
        r \in 0..MaxDim, c \in 0..MaxDim, b \in Boards, p \in Prompts}

\* <<event.pageX, canvas.offsetLeft>> of the clicks on the board.
Clicks == {<<125, 0>>, <<65, 8>>}

\* req.status once the headers are in; 0 is a transport failure.
Statuses == {200, 404, 0}

\* The readyState values reported after send().
ReadyStates == {3, 4}

----------------------------------------------------------------------------
(* History records. *)

NoResp ==
    [GameId |-> <<>>, NumRows |-> 0, NumColumns |-> 0, Board |-> <<>>,
     Prompt |-> <<>>, GameOver |-> FALSE]

NoEvent ==
    [kind |-> "load", handler |-> "", url |-> <<>>, pageX |-> 0, offsetLeft |-> 0,
     readyState |-> 0, status |-> 0, resp |-> NoResp, sent |-> FALSE,
     rendered |-> FALSE]

\* The log keeps the latest `keep` runs of the renderer, newest last.
Logged(log, keep, resp, rows, cols, out) ==
    LET all == Append(log, [resp |-> resp, rows |-> rows, cols |-> cols,
                            prompt |-> out.prompt, canvas |-> out.canvas])
        drop == IF Len(all) > keep THEN Len(all) - keep ELSE 0
    IN  SubSeq(all, drop + 1, Len(all))

----------------------------------------------------------------------------
(* State after the script has loaded, script.js:8-11 and 98-114. *)

InitialCanvas == [width |-> 300, height |-> 150, painted |-> <<>>]

Init ==
    /\ game_id = InitialGameId
    /\ num_rows = 0
    /\ num_columns = 0
    /\ active_game = FALSE
    /\ prompt = <<>>
    /\ canvas = InitialCanvas
    /\ inflight = EmptyBag
    /\ last = NoEvent
    /\ gameOverSeen = FALSE
    /\ renderLog = <<>>

----------------------------------------------------------------------------
(* The handlers. *)

\* A handler that keeps the session of a game already active.
SessionAfterStartFirstWins(resp) ==
    IF active_game
    THEN [game_id |-> game_id, num_rows |-> num_rows,
          num_columns |-> num_columns, active_game |-> TRUE]
    ELSE [game_id |-> resp["GameId"], num_rows |-> resp["NumRows"],
          num_columns |-> resp["NumColumns"], active_game |-> TRUE]

\* The session with NumRows and NumColumns exchanged.
SessionAfterStartSwapped(resp) ==
    [game_id |-> resp["GameId"], num_rows |-> resp["NumColumns"],
     num_columns |-> resp["NumRows"], active_game |-> TRUE]

\* script.js:21-24
SessionAfterStart(resp) ==
    [game_id |-> resp["GameId"], num_rows |-> resp["NumRows"],
     num_columns |-> resp["NumColumns"], active_game |-> TRUE]

\* The flag taken only from an answer for the session's own game.
ActiveAfterMoveForOwnGame(resp) ==
    IF resp["GameId"] = game_id THEN ~resp["GameOver"] ELSE active_game

\* The flag copied without the negation.
ActiveAfterMoveUnnegated(resp) == resp["GameOver"]

\* script.js:47
ActiveAfterMove(resp) == ~resp["GameOver"]

\* script.js:18-26, the success branch of newGame's handler.
NewGameSuccess(resp, keep) ==
    LET s == SessionAfterStart(resp)
        out == renderBoard(resp, s.num_rows, s.num_columns, canvas)
    IN  /\ game_id' = s.game_id
        /\ num_rows' = s.num_rows
        /\ num_columns' = s.num_columns
        /\ active_game' = s.active_game
        /\ prompt' = out.prompt
        /\ canvas' = out.canvas
        /\ gameOverSeen' = FALSE
        /\ renderLog' = Logged(renderLog, keep, resp, s.num_rows, s.num_columns, out)

\* A handler that also takes the session's id and shape from a move answer.
MakeMoveSuccessTakingSession(resp, keep) ==
    LET out == renderBoard(resp, resp["NumRows"], resp["NumColumns"], canvas)
    IN  /\ active_game' = ActiveAfterMove(resp)
        /\ game_id' = resp["GameId"]
        /\ num_rows' = resp["NumRows"]
        /\ num_columns' = resp["NumColumns"]
        /\ prompt' = out.prompt
        /\ canvas' = out.canvas
        /\ gameOverSeen' = (resp["GameOver"] \/ gameOverSeen)
        /\ renderLog' = Logged(renderLog, keep, resp, resp["NumRows"],
                               resp["NumColumns"], out)

\* script.js:46-48, the success branch of makeMove's handler.
MakeMoveSuccess(resp, keep) ==
    LET out == renderBoard(resp, num_rows, num_columns, canvas)
    IN  /\ active_game' = ActiveAfterMove(resp)
        /\ prompt' = out.prompt
        /\ canvas' = out.canvas
        /\ gameOverSeen' = (resp["GameOver"] \/ gameOverSeen)
        /\ renderLog' = Logged(renderLog, keep, resp, num_rows, num_columns, out)
        /\ UNCHANGED <<game_id, num_rows, num_columns>>

\* The XMLHttpRequest newGame opens, script.js:15-36.
NewGameRequest(gid, active) ==
    [handler |-> "newGame", url |-> NewGameUrl(gid, active)]

\* The XMLHttpRequest makeMove opens, script.js:43-54.
MakeMoveRequest(gid, col_index) ==
    [handler |-> "makeMove", url |-> MakeMoveUrl(gid, col_index)]

\* script.js:14-38, a click on "newGameButton" (script.js:102).  open() reports
\* readyState 1 to the handler at once, which its guard ignores.
newGame ==
    /\ BagCardinality(inflight) < MaxInflight
    /\ LET req == NewGameRequest(game_id, active_game)
       IN  /\ inflight' = inflight (+) SetToBag({req})
           /\ last' = [NoEvent EXCEPT !.kind = "newGameClick", !.handler = "newGame",
                                      !.url = req.url, !.sent = TRUE]
    /\ UNCHANGED <<game_id, num_rows, num_columns, active_game, prompt, canvas,
                   gameOverSeen, renderLog>>

\* A makeMove that aborts the requests sent earlier.
makeMoveAbortingEarlier(col_index, ev) ==
    /\ BagCardinality(inflight) < MaxInflight
    /\ LET req == MakeMoveRequest(game_id, col_index)
       IN  /\ inflight' = SetToBag({req})
           /\ last' = [ev EXCEPT !.handler = "makeMove", !.url = req.url, !.sent = TRUE]
    /\ prompt' = PendingPrompt(col_index)
    /\ UNCHANGED <<game_id, num_rows, num_columns, active_game, canvas,
                   gameOverSeen, renderLog>>

\* script.js:42-59, called by the click listener with the event it handles.
makeMove(col_index, ev) ==
    /\ BagCardinality(inflight) < MaxInflight
    /\ LET req == MakeMoveRequest(game_id, col_index)
       IN  /\ inflight' = inflight (+) SetToBag({req})
           /\ last' = [ev EXCEPT !.handler = "makeMove", !.url = req.url, !.sent = TRUE]
    /\ prompt' = PendingPrompt(col_index)
    /\ UNCHANGED <<game_id, num_rows, num_columns, active_game, canvas,
                   gameOverSeen, renderLog>>

\* script.js:103-113, the click listener of "gameBoard".
BoardClick ==
    \E click \in Clicks :
        LET ev == [NoEvent EXCEPT !.kind = "boardClick", !.pageX = click[1],
                                  !.offsetLeft = click[2]]
        IN  IF ClickAccepted(active_game)
            THEN makeMove(ColumnOfClick(click[1], click[2]), ev)
            ELSE /\ last' = ev
                 /\ UNCHANGED <<game_id, num_rows, num_columns, active_game, prompt,
                                canvas, inflight, gameOverSeen, renderLog>>

\* script.js:16-28 and 44-50: a readystatechange event of an outstanding
\* request runs the handler it was sent with.  readyState 4 ends the request;
\* the answer is read only in the success branch.
ReadyStateChange(Resps, keep) ==
    \E req \in BagToSet(inflight), readyState \in ReadyStates, status \in Statuses :
        /\ (status = 0 => readyState = 4)
        /\ \E resp \in (IF Succeeded(readyState, status) THEN Resps ELSE {NoResp}) :
            /\ inflight' = IF readyState = 4
                           THEN inflight (-) SetToBag({req})
                           ELSE inflight
            /\ last' = [NoEvent EXCEPT !.kind = "readystatechange",
                                       !.handler = req.handler, !.url = req.url,
                                       !.readyState = readyState, !.status = status,
                                       !.resp = resp,
                                       !.rendered = Succeeded(readyState, status)]
            /\ IF Succeeded(readyState, status)
               THEN IF req.handler = "newGame"
                    THEN NewGameSuccess(resp, keep)
                    ELSE MakeMoveSuccess(resp, keep)
               ELSE UNCHANGED <<game_id, num_rows, num_columns, active_game, prompt,
                                canvas, gameOverSeen, renderLog>>

----------------------------------------------------------------------------
(* The whole client: clicks and the events of the outstanding requests. *)

ServerEvent == ReadyStateChange(ServerResponses, 0)

Next == newGame \/ BoardClick \/ ServerEvent

Spec == Init /\ [][Next]_vars

----------------------------------------------------------------------------
(* The renderer alone: one request is outstanding in a started game of any  *)
(* shape, and its events are the only steps.  The answers are               *)
(* RenderResponses; the log keeps the run of the renderer.                  *)

BlankAnswer(r, c) ==
    [GameId |-> <<"7">>, NumRows |-> r, NumColumns |-> c, Board |-> <<>>,
     Prompt |-> <<"Your move.">>, GameOver |-> FALSE]

InitRender ==
    \E r \in 0..MaxDim, c \in 0..MaxDim, sender \in {"newGame", "makeMove"} :
        LET start == BlankAnswer(r, c)
            s == SessionAfterStart(start)
            out == renderBoard(start, s.num_rows, s.num_columns, InitialCanvas)
            req == IF sender = "newGame"
                   THEN NewGameRequest(s.game_id, s.active_game)
                   ELSE MakeMoveRequest(s.game_id, 0)
        IN  /\ game_id = s.game_id
            /\ num_rows = s.num_rows
            /\ num_columns = s.num_columns
            /\ active_game = s.active_game
            /\ prompt = IF sender = "newGame" THEN out.prompt ELSE PendingPrompt(0)
            /\ canvas = out.canvas
            /\ inflight = SetToBag({req})
            /\ last = [NoEvent EXCEPT
                         !.kind = IF sender = "newGame" THEN "newGameClick"
                                  ELSE "boardClick",
                         !.handler = sender, !.url = req.url, !.sent = TRUE]
            /\ gameOverSeen = FALSE
            /\ renderLog = <<>>

RenderEvent == ReadyStateChange(RenderResponses, 1)

NextRender == RenderEvent

SpecRender == InitRender /\ [][NextRender]_vars

----------------------------------------------------------------------------
(* Two runs of the renderer in a row: two requests are outstanding in a     *)
(* started game, and their events are the only steps.  The answers are      *)
(* ServerResponses; the log keeps the latest two runs.                      *)

InitRepeat ==
    \E start \in ServerResponses, sender \in {"newGame", "makeMove"} :
        LET s == SessionAfterStart(start)
            out == renderBoard(start, s.num_rows, s.num_columns, InitialCanvas)
            first == MakeMoveRequest(s.game_id, 0)
            second == IF sender = "newGame"
                      THEN NewGameRequest(s.game_id, s.active_game)
                      ELSE MakeMoveRequest(s.game_id, 2)
        IN  /\ game_id = s.game_id
            /\ num_rows = s.num_rows
            /\ num_columns = s.num_columns
            /\ active_game = s.active_game
            /\ prompt = PendingPrompt(0)
            /\ canvas = out.canvas
            /\ inflight = SetToBag({first}) (+) SetToBag({second})
            /\ last = [NoEvent EXCEPT
                         !.kind = IF sender = "newGame" THEN "newGameClick"
                                  ELSE "boardClick",
                         !.handler = sender, !.url = second.url, !.sent = TRUE]
            /\ gameOverSeen = FALSE
            /\ renderLog = Logged(<<>>, 2, start, s.num_rows, s.num_columns, out)

RepeatEvent == ReadyStateChange(ServerResponses, 2)

NextRepeat == RepeatEvent

SpecRepeat == InitRepeat /\ [][NextRepeat]_vars

----------------------------------------------------------------------------
(* Reading a request URL as the service of section 6 does: the path, then   *)
(* name=value pairs separated by "&", percent-decoded.                      *)

IndexOf(s, ch) ==
    IF \E i \in 1..Len(s) : s[i] = ch
    THEN CHOOSE i \in 1..Len(s) : s[i] = ch /\ \A j \in 1..(i - 1) : s[j] # ch
    ELSE 0

BeforeFirst(s, ch) == IF IndexOf(s, ch) = 0 THEN s ELSE SubSeq(s, 1, IndexOf(s, ch) - 1)

AfterFirst(s, ch) ==
    IF IndexOf(s, ch) = 0 THEN <<>> ELSE SubSeq(s, IndexOf(s, ch) + 1, Len(s))

RECURSIVE SplitOn(_, _)
SplitOn(s, ch) ==
    IF IndexOf(s, ch) = 0 THEN <<s>>
    ELSE <<BeforeFirst(s, ch)>> \o SplitOn(AfterFirst(s, ch), ch)

EncodedChars == {"&", "=", "%", "?", " "}

RECURSIVE PercentDecode(_)
PercentDecode(s) ==
    IF s = <<>> THEN <<>>
    ELSE IF Head(s) = "%" /\ Len(s) >= 3
              /\ \E ch \in EncodedChars : HexCode(ch) = <<s[2], s[3]>>
         THEN <<CHOOSE ch \in EncodedChars : HexCode(ch) = <<s[2], s[3]>> >>
              \o PercentDecode(SubSeq(s, 4, Len(s)))
         ELSE <<Head(s)>> \o PercentDecode(Tail(s))

UrlPath(url) == BeforeFirst(url, "?")

\* The decoded values of the query parameters called name.
QueryValues(url, name) ==
    LET parts == IF IndexOf(url, "?") = 0 THEN <<>> ELSE SplitOn(AfterFirst(url, "?"), "&")
    IN  {PercentDecode(AfterFirst(parts[i], "=")) :
            i \in {j \in 1..Len(parts) :
                     /\ IndexOf(parts[j], "=") # 0
                     /\ PercentDecode(BeforeFirst(parts[j], "=")) = name}}

DigitValue(ch) == CHOOSE d \in 0..9 : Digits[d + 1] = ch

RECURSIVE ParseNat(_)
ParseNat(s) ==
    IF Len(s) = 1 THEN DigitValue(s[1])
    ELSE (10 * ParseNat(SubSeq(s, 1, Len(s) - 1))) + DigitValue(s[Len(s)])

\* The integers a set of decimal strings denotes.
ParseInts(strs) ==
    {IF Head(t) = "-" THEN 0 - ParseNat(Tail(t)) ELSE ParseNat(t) :
        t \in {u \in strs : u # <<>> /\ u # <<"-">>
                            /\ \A i \in 1..Len(u) :
                                 u[i] \in {Digits[d] : d \in 1..10}
                                 \/ (i = 1 /\ u[i] = "-")}}

NewGamePath == <<"/", "n", "e", "w", "g", "a", "m", "e">>

MakeMovePath == <<"/", "m", "a", "k", "e", "m", "o", "v", "e">>

GameIdName == <<"g", "a", "m", "e", "_", "i", "d">>

ColumnIndexName == <<"c", "o", "l", "u", "m", "n", "_", "i", "n", "d", "e", "x">>

\* The step just taken ran a handler on a DONE request with status 200.
AppliedSuccess(handler) ==
    /\ last.kind = "readystatechange"
    /\ last.handler = handler
    /\ last.readyState = 4
    /\ last.status = 200

----------------------------------------------------------------------------
(* Properties. *)

\* C1: right after a successful (readyState 4, status 200) start-game answer
\* is applied, active_game is true and game_id, num_rows, num_columns are the
\* GameId, NumRows, NumColumns of that answer, whatever the session was before.
C1_StartAnswerSetsSession ==
    AppliedSuccess("newGame") =>
        /\ active_game = TRUE
        /\ game_id = last.resp.GameId
        /\ num_rows = last.resp.NumRows
        /\ num_columns = last.resp.NumColumns

\* A start answer for the second shape and id was applied after a game had
\* ended.
C1_Witness ==
    /\ AppliedSuccess("newGame")
    /\ last.resp.GameId = <<"a", "&">>
    /\ last.resp.NumColumns = 2
    /\ game_id = <<"a", "&">>
    /\ active_game

\* C2: right after a successful move answer is applied, active_game is the
\* negation of that answer's GameOver flag.
C2_MoveAnswerSetsActive ==
    AppliedSuccess("makeMove") => (active_game = ~last.resp.GameOver)

\* A move answer with GameOver = true was applied and the game is inactive.
C2_Witness ==
    /\ AppliedSuccess("makeMove")
    /\ last.resp.GameOver
    /\ ~active_game

\* C3: a click on the board while active_game is false sends nothing and
\* changes neither the session, nor the prompt, nor the outstanding requests.
C3_InactiveClickIsNoOp ==
    [][(last'.kind = "boardClick" /\ ~active_game) =>
          UNCHANGED <<game_id, num_rows, num_columns, active_game, prompt,
                      canvas, inflight>>]_vars

\* The board was clicked after a game had ended, and nothing was sent.
C3_Witness ==
    /\ last.kind = "boardClick"
    /\ ~active_game
    /\ gameOverSeen
    /\ ~last.sent

\* C4: when newGame is called while a game is active, the request it sends
\* is GET /newgame?game_id=<id>: the path is /newgame and the query parameter
\* named game_id carries the session's game_id.
C4_StartCarriesGameId ==
    (last.kind = "newGameClick" /\ active_game /\ game_id # InitialGameId) =>
        /\ UrlPath(last.url) = NewGamePath
        /\ QueryValues(last.url, GameIdName) = {game_id}

\* C5: a board click at pageX on a canvas at offsetLeft, made while
\* active_game is true, adds exactly one request: to /makemove, with game_id
\* the session's game_id and column_index the integer k with
\* 60k <= pageX - offsetLeft < 60(k+1), whether or not k < num_columns; at
\* offset 0, pageX 125 gives 2.
C5_ClickSendsOneMove ==
    [][(last'.kind = "boardClick" /\ active_game) =>
          \E req \in BagToSet(inflight') :
              /\ inflight' = inflight (+) SetToBag({req})
              /\ UrlPath(req.url) = MakeMovePath
              /\ QueryValues(req.url, GameIdName) = {game_id}
              /\ \E k \in -1..3 :
                    /\ ParseInts(QueryValues(req.url, ColumnIndexName)) = {k}
                    /\ slot_pixels * k <= last'.pageX - last'.offsetLeft
                    /\ last'.pageX - last'.offsetLeft < slot_pixels * (k + 1)
                    /\ (last'.pageX = 125 /\ last'.offsetLeft = 0 => k = 2)]_vars

\* A click at pageX 125, offset 0, in an active game of fewer than three
\* columns whose id needs escaping sent a move.
C5_Witness ==
    /\ last.kind = "boardClick"
    /\ active_game
    /\ last.sent
    /\ last.pageX = 125
    /\ last.offsetLeft = 0
    /\ num_columns <= 2
    /\ game_id = <<"a", "&">>
    /\ ParseInts(QueryValues(last.url, ColumnIndexName)) = {2}

\* The colour the specification gives a cell's content.
ColourOfCell(cell) ==
    IF cell = "X" THEN "#f06666" ELSE IF cell = "O" THEN "#6686f0" ELSE "#DCDCDC"

\* The content of board position i (from 0), "missing" beyond the board.
CellOrMissing(board, i) == IF i < Len(board) THEN board[i + 1] ELSE "missing"

\* C6: one run of the renderer with num_rows = r and num_columns = c leaves
\* exactly r*c markers on a surface of c*60 by r*60, the marker of (row,
\* column) being number c*row + column in painting order (row-major), centred
\* in its cell and coloured by board position c*row + column.
C6_RenderIsRowMajorGrid ==
    (last.rendered /\ Len(renderLog) = 1) =>
        LET e == renderLog[1]
            r == e.rows
            c == e.cols
        IN  /\ r = num_rows /\ c = num_columns
            /\ canvas = e.canvas
            /\ canvas.width = c * 60
            /\ canvas.height = r * 60
            /\ Len(canvas.painted) = r * c
            /\ \A row \in 0..(r - 1), col \in 0..(c - 1) :
                 canvas.painted[(c * row) + col + 1] =
                    [x |-> 30 + (60 * col), y |-> 30 + (60 * row), radius |-> 28,
                     fillStyle |-> ColourOfCell(CellOrMissing(e.resp.Board,
                                                              (c * row) + col))]

\* A board of two rows and two columns was rendered from an answer whose
\* second and third cells differ.
C6_Witness ==
    /\ last.rendered
    /\ Len(renderLog) = 1
    /\ num_rows = 2 /\ num_columns = 2
    /\ Len(canvas.painted) = 4
    /\ Len(last.resp.Board) = 3
    /\ last.resp.Board[2] = "X" /\ last.resp.Board[3] = "O"

\* C7: the colour of every rendered marker is decided by the content of its
\* board cell alone: "X" gives red, "O" gives blue, anything else, a missing
\* cell included, gives grey.
C7_ColourByCellContent ==
    (last.rendered /\ Len(renderLog) = 1) =>
        \A k \in 1..Len(canvas.painted) :
            LET cell == CellOrMissing(renderLog[1].resp.Board, k - 1)
                colour == canvas.painted[k].fillStyle
            IN  /\ cell = "X" => colour = "#f06666"
                /\ cell = "O" => colour = "#6686f0"
                /\ cell \notin {"X", "O"} => colour = "#DCDCDC"

\* A render painted an "X", an "O", a lower-case "x" and a missing cell.
C7_Witness ==
    /\ last.rendered
    /\ Len(renderLog) = 1
    /\ Len(canvas.painted) = 4
    /\ last.resp.Board = <<"X", "O", "x">>
    /\ canvas.painted[3].fillStyle = "#DCDCDC"
    /\ canvas.painted[4].fillStyle = "#DCDCDC"

\* C8: a request that ends (readyState 4) with a status other than 200, a
\* transport failure included, changes neither the session, nor the prompt,
\* nor the canvas, does not run the renderer, and sends nothing: the
\* outstanding requests are the earlier ones less the ended one.
C8_FailureIsSilentNoOp ==
    [][(last'.kind = "readystatechange" /\ last'.readyState = 4
        /\ last'.status # 200) =>
          /\ UNCHANGED <<game_id, num_rows, num_columns, active_game, prompt,
                         canvas>>
          /\ ~last'.rendered
          /\ \E req \in BagToSet(inflight) :
                inflight' = inflight (-) SetToBag({req})]_vars

\* A move request ended in a transport failure while the prompt showed the
\* pending text.
C8_Witness ==
    /\ last.kind = "readystatechange"
    /\ last.handler = "makeMove"
    /\ last.readyState = 4
    /\ last.status = 0
    /\ ~last.rendered
    /\ prompt = PendingPrompt(2)

\* C9 as stated: the rendered output (surface size, markers, prompt) is
\* decided by the answer alone, so two runs of the renderer in a row with the
\* same answer leave the same output.
C9_OutputDecidedByAnswerAlone ==
    (Len(renderLog) = 2 /\ renderLog[1].resp = renderLog[2].resp) =>
        /\ renderLog[1].canvas = renderLog[2].canvas
        /\ renderLog[1].prompt = renderLog[2].prompt

\* C9, amended: the rendered output is decided by the answer together with
\* the session's num_rows and num_columns at the time of the run, and by
\* nothing painted before: two runs in a row with the same answer and the
\* same num_rows and num_columns leave the same output.
C9_RenderIsIdempotent ==
    (/\ Len(renderLog) = 2
     /\ renderLog[1].resp = renderLog[2].resp
     /\ renderLog[1].rows = renderLog[2].rows
     /\ renderLog[1].cols = renderLog[2].cols) =>
        /\ renderLog[1].canvas = renderLog[2].canvas
        /\ renderLog[1].prompt = renderLog[2].prompt
        /\ canvas = renderLog[2].canvas

\* The same answer was rendered twice in a row on a board of two cells.
C9_Witness ==
    /\ Len(renderLog) = 2
    /\ renderLog[1].resp = renderLog[2].resp
    /\ renderLog[1].rows = renderLog[2].rows
    /\ renderLog[1].cols = renderLog[2].cols
    /\ Len(canvas.painted) = 2
    /\ AppliedSuccess("makeMove")

\* C10: once a successful move answer with GameOver = true has been applied,
\* and until a successful start-game answer is applied, active_game stays
\* false and no board click sends a move.
C10_GameOverLastsUntilStart ==
    gameOverSeen =>
        /\ ~active_game
        /\ (last.kind = "boardClick" => ~last.sent)

----------------------------------------------------------------------------
(* Two start-game requests outstanding at once.  The older was sent while a *)
(* game was active, so its URL carries the id text; a move answer then      *)
(* ended the game, and the newer was sent with the plain URL.  Their events *)
(* are the only steps; the log keeps the latest two runs of the renderer.   *)

OlderStartRequest(g) == NewGameRequest(g, TRUE)

NewerStartRequest(g) == NewGameRequest(g, FALSE)

InitRace ==
    \E g \in GameIds, d \in Shapes :
        LET over == [GameId |-> g, NumRows |-> d[1], NumColumns |-> d[2],
                     Board |-> BoardOfShape(d), Prompt |-> <<"Your move.">>,
                     GameOver |-> TRUE]
            out == renderBoard(over, d[1], d[2], InitialCanvas)
        IN  /\ game_id = g
            /\ num_rows = d[1]
            /\ num_columns = d[2]
            /\ active_game = ActiveAfterMove(over)
            /\ prompt = out.prompt
            /\ canvas = out.canvas
            /\ inflight = SetToBag({OlderStartRequest(g)})
                          (+) SetToBag({NewerStartRequest(g)})
            /\ last = [NoEvent EXCEPT !.kind = "newGameClick", !.handler = "newGame",
                                      !.url = NewerStartRequest(g).url, !.sent = TRUE]
            /\ gameOverSeen = TRUE
            /\ renderLog = <<>>

RaceEvent == ReadyStateChange(ServerResponses, 2)

NextRace == RaceEvent

SpecRace == InitRace /\ [][NextRace]_vars

\* C11: with two start-game requests outstanding, once both answers have been
\* applied, in whichever order, the session holds the values of the answer
\* applied last; when that is the older request's answer, its GameId, NumRows
\* and NumColumns have replaced those of the newer request's answer.
C11_LastAppliedStartWins ==
    (Len(renderLog) = 2 /\ AppliedSuccess("newGame")) =>
        /\ last.resp = renderLog[2].resp
        /\ game_id = last.resp.GameId
        /\ num_rows = last.resp.NumRows
        /\ num_columns = last.resp.NumColumns
        /\ (last.url \in {OlderStartRequest(g).url : g \in GameIds} =>
               /\ game_id = renderLog[2].resp.GameId
               /\ <<num_rows, num_columns>> =
                     <<renderLog[2].rows, renderLog[2].cols>>)

\* The newer request's answer was applied first and the older request's
\* answer, with another id and shape, second: the session holds the older
\* one's values.
C11_Witness ==
    /\ Len(renderLog) = 2
    /\ AppliedSuccess("newGame")
    /\ inflight = EmptyBag
    /\ last.url = OlderStartRequest(<<"7">>).url
    /\ renderLog[1].resp.GameId = <<"a", "&">>
    /\ renderLog[1].resp.NumColumns = 2
    /\ game_id = <<"7">>
    /\ num_columns = 1

\* C12: a successful move answer is applied whichever game its request named:
\* when the request named another game than the session's current one (a
\* newer start answer was applied meanwhile), the answer still sets
\* active_game to the negation of its GameOver flag, and the renderer repaints
\* the board with the session's current num_rows and num_columns and shows
\* the answer's prompt.
C12_StaleMoveAnswerIsApplied ==
    (AppliedSuccess("makeMove") /\ QueryValues(last.url, GameIdName) # {game_id}) =>
        /\ active_game = ~last.resp.GameOver
        /\ last.rendered
        /\ prompt = last.resp.Prompt
        /\ canvas.width = num_columns * 60
        /\ canvas.height = num_rows * 60
        /\ Len(canvas.painted) = num_rows * num_columns

\* A move sent for game "7" was answered with GameOver = true after the
\* session had moved on to game "a&" of two columns: the game is inactive
\* and two markers are painted.
C12_Witness ==
    /\ AppliedSuccess("makeMove")
    /\ QueryValues(last.url, GameIdName) = {<<"7">>}
    /\ game_id = <<"a", "&">>
    /\ last.resp.GameId = <<"7">>
    /\ last.resp.GameOver
    /\ ~active_game
    /\ num_columns = 2
    /\ Len(canvas.painted) = 2

\* C13: every call of newGame, in any session state, and every board click
\* made while active_game is true, adds one request to the outstanding ones
\* and leaves every earlier one outstanding, whatever is outstanding already.
C13_SendsNeverCancel ==
    [][(last'.kind = "newGameClick" \/ (last'.kind = "boardClick" /\ active_game)) =>
          /\ BagCardinality(inflight') = BagCardinality(inflight) + 1
          /\ \E req \in BagToSet(inflight') :
                /\ inflight' = inflight (+) SetToBag({req})
                /\ req.url = last'.url
          /\ \A old \in BagToSet(inflight) :
                CopiesIn(old, inflight') >= CopiesIn(old, inflight)]_vars

\* A board click sent a second, identical move request while the first was
\* still outstanding.
C13_Witness ==
    /\ last.kind = "boardClick"
    /\ last.sent
    /\ \E req \in BagToSet(inflight) :
          /\ req.handler = "makeMove"
          /\ req.url = last.url
          /\ CopiesIn(req, inflight) = 2

----------------------------------------------------------------------------
(* The whole client with a service that keeps its contract: every game id   *)
(* has one shape, a start answer carries its game's shape and a board of    *)
(* that size, and a move answer is for the game its request named, with     *)
(* that game's shape and a board of that size.                              *)

ShapeOfGame(g) == IF g = <<"7">> THEN <<1, 1>> ELSE <<1, 2>>

AnswerMatchesItsGame(resp) ==
    /\ <<resp.NumRows, resp.NumColumns>> = ShapeOfGame(resp.GameId)
    /\ Len(resp.Board) = resp.NumRows * resp.NumColumns

AnswerKeepsContract(handler, url, resp) ==
    /\ AnswerMatchesItsGame(resp)
    /\ (handler = "makeMove" => QueryValues(url, GameIdName) = {resp.GameId})

\* As ServerEvent, the answers read being those that keep the contract.
ServedEvent ==
    /\ ReadyStateChange(ServerResponses, 0)
    /\ (last'.rendered => AnswerKeepsContract(last'.handler, last'.url, last'.resp))

NextServed == newGame \/ BoardClick \/ ServedEvent

SpecServed == Init /\ [][NextServed]_vars

\* C14: whenever the renderer runs, over any interleaving of requests and
\* completions with a service that keeps its contract, num_rows * num_columns
\* is the length of the Board it renders.
C14_BoardLengthMatchesSession ==
    last.rendered => (num_rows * num_columns = Len(last.resp.Board))

\* The move-pending text naming column n.
PendingTextNaming(n) ==
    <<"Player move in column ">> \o NumberToString(n) \o <<". Computer thinking...">>

ShowsPendingText(p) == \E n \in 0..4 : p = PendingTextNaming(n)

\* The integer k with 60k <= pageX - offsetLeft < 60(k+1).
FloorColumn(pageX, offsetLeft) ==
    CHOOSE k \in -1..3 : /\ 60 * k <= pageX - offsetLeft
                         /\ pageX - offsetLeft < 60 * (k + 1)

\* The step taken applies a successful answer.
SuccessStep ==
    /\ last'.kind = "readystatechange"
    /\ last'.readyState = 4
    /\ last'.status = 200

\* The step taken is a board click that calls makeMove.
MoveStep == last'.kind = "boardClick" /\ active_game

\* C15 as stated: makeMove(k) sets the prompt to the pending text naming
\* column k + 1 as it sends the request; while the prompt shows a pending text
\* every step that applies no successful answer leaves it as it is; and a
\* successful answer replaces it with the answer's prompt.
C15_PendingTextStaysUntilSuccess ==
    [][/\ MoveStep =>
            /\ prompt' = PendingTextNaming(
                            FloorColumn(last'.pageX, last'.offsetLeft) + 1)
            /\ BagCardinality(inflight') = BagCardinality(inflight) + 1
       /\ (ShowsPendingText(prompt) /\ ~SuccessStep) => prompt' = prompt
       /\ SuccessStep => prompt' = last'.resp.Prompt]_vars

\* C15, amended: makeMove(k) sets the prompt to the pending text naming column
\* k + 1 as it sends the request; while the prompt shows a pending text every
\* step that neither applies a successful answer nor calls makeMove again
\* leaves it as it is (a failed request included); and a successful answer
\* replaces it with the answer's prompt.
C15_PendingTextStaysUntilSuccessOrMove ==
    [][/\ MoveStep =>
            /\ prompt' = PendingTextNaming(
                            FloorColumn(last'.pageX, last'.offsetLeft) + 1)
            /\ BagCardinality(inflight') = BagCardinality(inflight) + 1
       /\ (ShowsPendingText(prompt) /\ ~SuccessStep /\ ~MoveStep) => prompt' = prompt
       /\ SuccessStep => prompt' = last'.resp.Prompt]_vars

\* The only outstanding request, a move in column index 0, has failed with
\* status 404 and the prompt still names column 1.
C15_Witness ==
    /\ last.kind = "readystatechange"
    /\ last.handler = "makeMove"
    /\ last.readyState = 4
    /\ last.status = 404
    /\ inflight = EmptyBag
    /\ prompt = PendingTextNaming(1)
    /\ ParseInts(QueryValues(last.url, ColumnIndexName)) = {0}

\* C16: a start-game request carries the session's game_id, as the value of
\* the query parameter game_id, exactly when game_id is not "0" and
\* active_game is true at the call; otherwise it is the plain GET /newgame.
C16_StartCarriesIdExactlyWhenActive ==
    last.kind = "newGameClick" =>
        /\ UrlPath(last.url) = NewGamePath
        /\ IF game_id # InitialGameId /\ active_game
           THEN QueryValues(last.url, GameIdName) = {game_id}
           ELSE last.url = NewGamePath

\* C17: sending a request changes no session field, and neither does any
\* other step that applies no successful answer; applying a successful move
\* answer leaves game_id, num_rows and num_columns as they are.
C17_SessionChangesOnlyOnSuccess ==
    [][/\ ~SuccessStep =>
            UNCHANGED <<game_id, num_rows, num_columns, active_game>>
       /\ (SuccessStep /\ last'.handler = "makeMove") =>
            UNCHANGED <<game_id, num_rows, num_columns>>]_vars

\* A successful move answer carrying another id and shape than the session's
\* was applied while a start-game request, sent with the session's id text,
\* is still outstanding.
C17_Witness ==
    /\ AppliedSuccess("makeMove")
    /\ last.resp.GameId # game_id
    /\ last.resp.NumColumns # num_columns
    /\ game_id = <<"7">>
    /\ \E req \in BagToSet(inflight) :
          req = NewGameRequest(<<"7">>, TRUE)

\* C18: in every reachable state, active_game = true implies that a start
\* answer has been applied (game_id is no longer the initial "0" but an id
\* the service delivered), and every move request sent names such an id,
\* never the initial "0"; the one just sent names the session's game_id.
C18_MovesNameDeliveredGame ==
    /\ active_game => (game_id # InitialGameId /\ game_id \in GameIds)
    /\ \A req \in BagToSet(inflight) :
          req.handler = "makeMove" =>
              /\ InitialGameId \notin QueryValues(req.url, GameIdName)
              /\ \E g \in GameIds : QueryValues(req.url, GameIdName) = {g}
    /\ (last.kind = "boardClick" /\ last.sent) =>
          QueryValues(last.url, GameIdName) = {game_id}

\* A move naming game "7" is outstanding in the active game "a&", for which
\* a move was just sent.
C18_Witness ==
    /\ active_game
    /\ game_id = <<"a", "&">>
    /\ last.kind = "boardClick"
    /\ last.sent
    /\ QueryValues(last.url, GameIdName) = {<<"a", "&">>}
    /\ \E req \in BagToSet(inflight) :
          /\ req.handler = "makeMove"
          /\ QueryValues(req.url, GameIdName) = {<<"7">>}

====
